---- MODULE Spec2Model ----
(***************************************************************************)
(* Model of the Ambeo Soundbar integration's resilience layer and polling  *)
(* coordinator:                                                            *)
(*   - api/client.py   CircuitBreaker, RateLimiter, AmbeoApiClient.request *)
(*   - coordinator.py  AmbeoDataUpdateCoordinator._async_update_data       *)
(* Time is an integer clock `now`; one unit stands for the granularity of  *)
(* retry_delay.  asyncio is cooperative, so every action is the code that  *)
(* runs between two awaits of one task.                                    *)
(* The client's _last_request_time and _avg_response_time are written by   *)
(* request() but read by no control flow (only by the metrics property);   *)
(* they are not part of the state here.                                    *)
(***************************************************************************)
EXTENDS Integers, Sequences, FiniteSets, TLC

\* ---------------------------------------------------------------- bounds
MaxTime == 3
MaxRequests == 3
\* The asyncio tasks that call request() concurrently.
Tasks == {1, 2}

\* The keyword arguments of AmbeoApiClient.__init__ explored by the model
\* (the defaults 3 / 0.5 s / 10 per 1 s / 5 / 120 s scaled down).
Configs ==
  { [failure_threshold |-> 2, timeout_seconds |-> 2, max_retries |-> 3,
     retry_delay |-> 1, max_calls |-> 2, period_seconds |-> 2],
    [failure_threshold |-> 1, timeout_seconds |-> 1, max_retries |-> 0,
     retry_delay |-> 1, max_calls |-> 1, period_seconds |-> 1] }

\* datetime | None : None is modelled by -1, instants are 0..MaxTime
None == -1

\* ------------------------------------------------------- ConnectionState
CONNECTED == "connected"
DISCONNECTED == "disconnected"
ERROR == "error"
RATE_LIMITED == "rate_limited"
ConnectionState == {CONNECTED, DISCONNECTED, ERROR, RATE_LIMITED}

VARIABLES
  now,                \* the clock (datetime.now() and time.monotonic())
  failure_threshold,  \* CircuitBreaker.failure_threshold
  timeout_seconds,    \* CircuitBreaker.timeout_seconds
  max_retries,        \* AmbeoApiClient._max_retries
  retry_delay,        \* AmbeoApiClient._retry_delay
  max_calls,          \* RateLimiter.max_calls
  period_seconds,     \* RateLimiter.period_seconds
  circuit_breaker,    \* [failure_count, last_failure_time, state]
  timestamps,         \* RateLimiter._timestamps (deque, oldest first)
  request_count,      \* AmbeoApiClient._request_count  (requests_total)
  failure_count,      \* AmbeoApiClient._failure_count  (failures_total)
  task,               \* the request() coroutines, one per asyncio task
  started,            \* number of request() calls made so far
  streak,             \* history: requests that exhausted their retries
                      \* since the last successful request
  since_reset,        \* history: requests that exhausted their retries
                      \* since the last successful request or the last
                      \* is_open that found the timeout elapsed
  attempt_log         \* history: the times of the HTTP attempts sent within
                      \* the last period_seconds, oldest first

cfg_vars == <<failure_threshold, timeout_seconds, max_retries, retry_delay,
              max_calls, period_seconds>>

client_vars == <<now, cfg_vars, circuit_breaker, timestamps, request_count,
                 failure_count, task, started, streak, since_reset,
                 attempt_log>>

VARIABLES
  capabilities,       \* the Capability flags api.has_capability() reports
  update_interval,    \* DataUpdateCoordinator.update_interval, in seconds
  observed_state,     \* power_state of the last refresh that returned data
  refresh             \* the last call of _async_update_data

coord_vars == <<capabilities, update_interval, observed_state, refresh>>

VARIABLES
  entries,            \* hass.config_entries of the domain, in creation order
  answering,          \* per host: the serial of the device answering there,
                      \* or the exception a connection attempt ends with
  result              \* the FlowResult of the last config / options step

flow_vars == <<entries, answering, result>>

VARIABLES
  entry_state,        \* per config entry: where its setup stands
  setup_result,       \* per config entry: how its last async_setup_entry
                      \* or async_unload_entry ended
  hass_data,          \* hass.data[DOMAIN]: entry_id -> {api, device,
                      \* coordinator}
  services,           \* the services registered for the domain
  runtime_data,       \* per config entry: entry.runtime_data
  entities,           \* per config entry: the entities its platforms added
  service_call        \* the last light service call and the calls it made

setup_vars == <<entry_state, setup_result, hass_data, services, runtime_data,
                entities, service_call>>

\* util.retry_with_backoff: one call of the wrapper of a decorated function.
VARIABLE wrapper

vars == <<client_vars, coord_vars, flow_vars, setup_vars, wrapper>>

\* What the actions of one component leave alone.
non_client_vars == <<coord_vars, flow_vars, setup_vars, wrapper>>
non_coord_vars == <<client_vars, flow_vars, setup_vars, wrapper>>
non_flow_vars == <<client_vars, coord_vars, setup_vars, wrapper>>
non_retry_vars == <<client_vars, coord_vars, flow_vars, setup_vars>>
non_setup_vars == <<wrapper, client_vars, update_interval, observed_state, refresh,
                    flow_vars>>

\* ------------------------------------------------------- CircuitBreaker
CircuitBreakerInit ==
  [failure_count |-> 0, last_failure_time |-> None, state |-> CONNECTED]

\* is_open with the elapsed time compared one unit too early.
is_open_early(cb, t, timeout) ==
  IF cb.state = ERROR
  THEN IF cb.last_failure_time # None
          /\ (t - cb.last_failure_time) + 1 >= timeout
       THEN [open |-> FALSE, cb |-> CircuitBreakerInit]
       ELSE [open |-> TRUE, cb |-> cb]
  ELSE [open |-> FALSE, cb |-> cb]

\* is_open that closes the circuit without resetting the failure count.
is_open_keeps_count(cb, t, timeout) ==
  IF cb.state = ERROR
  THEN IF cb.last_failure_time # None /\ t - cb.last_failure_time >= timeout
       THEN [open |-> FALSE,
             cb |-> [cb EXCEPT !.state = CONNECTED,
                               !.last_failure_time = None]]
       ELSE [open |-> TRUE, cb |-> cb]
  ELSE [open |-> FALSE, cb |-> cb]

\* CircuitBreaker.is_open, a property with a side effect: the returned
\* record holds the value of the property and the breaker after the read.
is_open(cb, t, timeout) ==
  IF cb.state = ERROR
  THEN IF cb.last_failure_time # None /\ t - cb.last_failure_time >= timeout
       THEN [open |-> FALSE, cb |-> CircuitBreakerInit]
       ELSE [open |-> TRUE, cb |-> cb]
  ELSE [open |-> FALSE, cb |-> cb]

\* CircuitBreaker.state
state(cb, t, timeout) ==
  LET r == is_open(cb, t, timeout)
  IN  [value |-> IF r.open THEN ERROR ELSE r.cb.state, cb |-> r.cb]

\* CircuitBreaker.record_success
record_success(cb) ==
  IF cb.failure_count > 0 THEN CircuitBreakerInit ELSE cb

\* record_failure that keeps the time of the failure that opened the
\* circuit.
record_failure_first_time(cb, t, threshold) ==
  [failure_count |-> cb.failure_count + 1,
   last_failure_time |-> IF cb.state = ERROR THEN cb.last_failure_time ELSE t,
   state |-> IF cb.failure_count + 1 >= threshold THEN ERROR ELSE cb.state]

\* record_failure that opens only above the threshold.
record_failure_above(cb, t, threshold) ==
  [failure_count |-> cb.failure_count + 1,
   last_failure_time |-> t,
   state |-> IF cb.failure_count + 1 > threshold THEN ERROR ELSE cb.state]

\* CircuitBreaker.record_failure
record_failure(cb, t, threshold) ==
  [failure_count |-> cb.failure_count + 1,
   last_failure_time |-> t,
   state |-> IF cb.failure_count + 1 >= threshold THEN ERROR ELSE cb.state]

\* ---------------------------------------------------------- RateLimiter
RECURSIVE popleft_old(_, _)
\* while self._timestamps and self._timestamps[0] < cutoff: popleft()
popleft_old(ts, cutoff) ==
  IF ts # <<>> /\ Head(ts) < cutoff THEN popleft_old(Tail(ts), cutoff) ELSE ts

\* RateLimiter.acquire up to its await: the purged deque and the time to
\* sleep (0: no sleep, the caller appends `t` at once).
acquire_wait_time(ts, t, calls, period) ==
  LET purged == popleft_old(ts, t - period)
  IN  IF Len(purged) >= calls /\ (Head(purged) + period) - t > 0
      THEN (Head(purged) + period) - t
      ELSE 0

\* RateLimiter.acquire after its sleep (or without one): purge again with
\* the new clock and append it.
acquire_append(ts, t, period) == Append(popleft_old(ts, t - period), t)

\* RateLimiter.current_count
current_count(ts, t, period) ==
  Cardinality({i \in 1..Len(ts) : ts[i] > t - period})

\* -------------------------------------------------------- request()
\* What one HTTP attempt can end with: the status classes told apart by
\* _handle_response, an unparsable body, and the transport exceptions.
HttpOk == {"200", "204"}
HttpAmbeoError == {"401", "404", "429", "5xx", "bad_body"}
HttpRetried == {"timeout", "client_error", "4xx"}
Responses == HttpOk \cup HttpAmbeoError \cup HttpRetried

\* A _handle_response whose error for every status is not an AmbeoError.
handle_response_untyped(resp) ==
  IF resp \in HttpOk THEN "none" ELSE "TypeError"

\* The exception _handle_response raises for a response, "none" for a
\* returned ApiResponse.  AmbeoValidationError.__init__ takes neither url
\* nor response_data, so the raise for another status >= 400 is a
\* TypeError.
handle_response(resp) ==
  CASE resp \in HttpOk -> "none"
    [] resp = "401" -> "AmbeoError"
    [] resp = "404" -> "AmbeoNotFoundError"
    [] resp = "429" -> "AmbeoRateLimitError"
    [] resp = "5xx" -> "AmbeoServerError"
    [] resp = "4xx" -> "TypeError"
    [] resp = "bad_body" -> "AmbeoResponseError"
    [] OTHER -> "none"

AmbeoErrors == {"AmbeoError", "AmbeoNotFoundError", "AmbeoRateLimitError",
                "AmbeoServerError", "AmbeoResponseError",
                "AmbeoValidationError", "AmbeoCircuitBreakerError",
                "AmbeoTimeoutError", "AmbeoConnectionError"}

\* last_exception set by the except clauses of the retry loop
last_exception_of(resp) ==
  CASE resp = "timeout" -> "AmbeoTimeoutError"
    [] resp = "client_error" -> "AmbeoConnectionError"
    [] OTHER -> "AmbeoError"

\* retries = self._max_retries if retry else 1
retries_of(retry, maxr) == IF retry THEN maxr ELSE 1

RECURSIVE pow2(_)
pow2(n) == IF n = 0 THEN 1 ELSE 2 * pow2(n - 1)

\* A backoff whose exponent is one too large.
backoff_delay_shifted(delay, attempt) == delay * pow2(attempt + 1)

\* delay = self._retry_delay * (2**attempt)
backoff_delay(delay, attempt) == delay * pow2(attempt)

\* attempt < retries - 1
has_next_attempt(attempt, retries) == attempt < retries - 1

\* A finished request() hands its result to its caller before anything
\* else runs: no task is at "done" when another step is taken.
NoneDone == \A u \in Tasks : task[u].pc # "done"

IdleTask ==
  [pc |-> "idle", retry |-> FALSE, retries |-> 0, attempt |-> 0,
   wake |-> 0, last_exception |-> "none", outcome |-> "none",
   sent |-> 0, sleeps |-> <<>>, trial |-> FALSE, response |-> "none",
   exhausted |-> FALSE]

\* The body of request() from the return of acquire() to the first await
\* of the retry loop (or to the raise when the loop has no iteration).
\* cb is the breaker, sr the history count, as is_open left them.
EnterLoop(t, tk, cb, sr) ==
  IF tk.retries > 0
  THEN /\ task' = [task EXCEPT ![t] =
                     [tk EXCEPT !.pc = "http", !.attempt = 0, !.sent = 1]]
       /\ request_count' = request_count + 1
       /\ circuit_breaker' = cb
       /\ since_reset' = sr
       /\ attempt_log' = Append(attempt_log, now)
       /\ UNCHANGED <<failure_count, streak>>
  ELSE /\ task' = [task EXCEPT ![t] =
                     [tk EXCEPT !.pc = "done", !.exhausted = TRUE,
                                !.outcome = "AmbeoConnectionError"]]
       /\ failure_count' = failure_count + 1
       /\ circuit_breaker' = record_failure(cb, now, failure_threshold)
       /\ streak' = streak + 1
       /\ since_reset' = sr + 1
       /\ UNCHANGED <<request_count, attempt_log>>

\* request(): the circuit breaker check, the rate limiter and the entry
\* into the retry loop, up to the first await that suspends the task.
RequestStart(t, retry) ==
  /\ task[t].pc = "idle"
  /\ NoneDone
  /\ started < MaxRequests
  /\ started' = started + 1
  /\ LET r == is_open(circuit_breaker, now, timeout_seconds)
         tk == [IdleTask EXCEPT !.retry = retry,
                                !.retries = retries_of(retry, max_retries),
                                !.trial = (circuit_breaker.state = ERROR)]
         w == acquire_wait_time(timestamps, now, max_calls, period_seconds)
         sr == IF r.cb = circuit_breaker THEN since_reset ELSE 0
     IN  IF r.open
         THEN /\ task' = [task EXCEPT ![t] =
                   [tk EXCEPT !.pc = "done", !.trial = FALSE,
                              !.outcome = "AmbeoCircuitBreakerError"]]
              /\ circuit_breaker' = r.cb
              /\ UNCHANGED <<timestamps, request_count, failure_count,
                             streak, since_reset, attempt_log>>
         ELSE IF w > 0
         THEN /\ task' = [task EXCEPT ![t] =
                   [tk EXCEPT !.pc = "limiter_sleep", !.wake = now + w]]
              /\ timestamps' = popleft_old(timestamps, now - period_seconds)
              /\ circuit_breaker' = r.cb
              /\ since_reset' = sr
              /\ UNCHANGED <<request_count, failure_count, streak,
                             attempt_log>>
         ELSE /\ timestamps' = acquire_append(timestamps, now, period_seconds)
              /\ EnterLoop(t, tk, r.cb, sr)
  /\ UNCHANGED <<now, cfg_vars, non_client_vars>>

\* acquire() resumes after asyncio.sleep(wait_time), then request() runs
\* on into the retry loop.
LimiterWake(t) ==
  /\ task[t].pc = "limiter_sleep"
  /\ NoneDone
  /\ now >= task[t].wake
  /\ timestamps' = acquire_append(timestamps, now, period_seconds)
  /\ EnterLoop(t, task[t], circuit_breaker, since_reset)
  /\ UNCHANGED <<now, cfg_vars, non_client_vars, started>>

\* One HTTP attempt ends with resp: the rest of the loop body, up to the
\* return, the raise or the backoff sleep.
HttpResponse(t, resp) ==
  /\ task[t].pc = "http"
  /\ NoneDone
  /\ LET tk == task[t]
             fin == [task[t] EXCEPT !.pc = "done", !.response = resp]
     IN  IF resp \in HttpOk
         THEN /\ task' = [task EXCEPT ![t] = [fin EXCEPT !.outcome = "ok"]]
              /\ circuit_breaker' = record_success(circuit_breaker)
              /\ streak' = 0
              /\ since_reset' = 0
              /\ UNCHANGED failure_count
         ELSE IF handle_response(resp) \in AmbeoErrors
         THEN /\ task' = [task EXCEPT ![t] =
                   [fin EXCEPT !.outcome = handle_response(resp)]]
              /\ UNCHANGED <<circuit_breaker, failure_count, streak,
                             since_reset>>
         ELSE IF has_next_attempt(tk.attempt, tk.retries)
         THEN /\ task' = [task EXCEPT ![t] =
                   [tk EXCEPT !.pc = "backoff",
                      !.response = resp,
                      !.last_exception = last_exception_of(resp),
                      !.wake = now + backoff_delay(retry_delay, tk.attempt),
                      !.sleeps = Append(tk.sleeps,
                                   backoff_delay(retry_delay, tk.attempt))]]
              /\ UNCHANGED <<circuit_breaker, failure_count, streak,
                             since_reset>>
         ELSE /\ task' = [task EXCEPT ![t] =
                   [fin EXCEPT !.exhausted = TRUE,
                      !.last_exception = last_exception_of(resp),
                      !.outcome = last_exception_of(resp)]]
              /\ failure_count' = failure_count + 1
              /\ circuit_breaker' =
                   record_failure(circuit_breaker, now, failure_threshold)
              /\ streak' = streak + 1
              /\ since_reset' = since_reset + 1
  /\ UNCHANGED <<now, cfg_vars, non_client_vars, timestamps,
                 request_count, started, attempt_log>>

\* The backoff sleep ends: the next iteration of the retry loop starts.
BackoffWake(t) ==
  /\ task[t].pc = "backoff"
  /\ NoneDone
  /\ now >= task[t].wake
  /\ task' = [task EXCEPT ![t] =
                [@ EXCEPT !.pc = "http", !.attempt = @ + 1, !.sent = @ + 1]]
  /\ request_count' = request_count + 1
  /\ attempt_log' = Append(attempt_log, now)
  /\ UNCHANGED <<now, cfg_vars, non_client_vars, circuit_breaker,
                 timestamps, failure_count, started, streak, since_reset>>

\* The caller has the result or the exception of request().
Return(t) ==
  /\ task[t].pc = "done"
  /\ task' = [task EXCEPT ![t] = IdleTask]
  /\ UNCHANGED <<now, cfg_vars, non_client_vars, circuit_breaker,
                 timestamps, request_count, failure_count, started, streak,
                 since_reset, attempt_log>>

\* AmbeoApiClient.circuit_state / metrics read CircuitBreaker.state.
ReadCircuitState ==
  /\ NoneDone
  /\ circuit_breaker' = state(circuit_breaker, now, timeout_seconds).cb
  /\ circuit_breaker' # circuit_breaker
  /\ since_reset' = 0
  /\ UNCHANGED <<now, cfg_vars, non_client_vars, timestamps,
                 request_count, failure_count, task, started, streak,
                 attempt_log>>

\* The times of a log that lie within the period that ends at t.
within_period(log, t, period) ==
  SelectSeq(log, LAMBDA x : x > t - period)

\* Time passes.
Tick ==
  /\ NoneDone
  /\ now < MaxTime
  /\ now' = now + 1
  /\ attempt_log' = within_period(attempt_log, now + 1, period_seconds)
  /\ UNCHANGED <<cfg_vars, non_client_vars, circuit_breaker,
                 timestamps, request_count, failure_count, task, started,
                 streak, since_reset>>

\* AmbeoApiClient.__init__
ClientInit ==
  /\ now = 0
  /\ \E c \in Configs :
       /\ failure_threshold = c.failure_threshold
       /\ timeout_seconds = c.timeout_seconds
       /\ max_retries = c.max_retries
       /\ retry_delay = c.retry_delay
       /\ max_calls = c.max_calls
       /\ period_seconds = c.period_seconds
  /\ circuit_breaker = CircuitBreakerInit
  /\ timestamps = <<>>
  /\ request_count = 0
  /\ failure_count = 0
  /\ task = [t \in Tasks |-> IdleTask]
  /\ started = 0
  /\ streak = 0
  /\ since_reset = 0
  /\ attempt_log = <<>>

\* ------------------------------------------------------------------------
\* coordinator.py : AmbeoDataUpdateCoordinator
\* ------------------------------------------------------------------------

\* const.py Capability, the flags _async_update_data asks for
AMBEO_LOGO == "AmbeoLogo"
LED_BAR == "LEDBar"
CODEC_LED == "CodecLED"
VOICE_ENHANCEMENT_TOGGLE == "VoiceEnhancementMode"
VOICE_ENHANCEMENT_LEVEL == "VoiceEnhancementLevel"
BLUETOOTH_PAIRING == "AmbeoBluetoothPairing"
SUBWOOFER == "SubWoofer"
ECO_MODE == "EcoMode"
MAX_DISPLAY == "AmbeoMaxDisplay"
AMBEO_MODE == "AmbeoMode"
NIGHT_MODE == "NightMode"
SOUND_FEEDBACK == "SoundFeedback"

PolledCapabilities ==
  {AMBEO_LOGO, LED_BAR, CODEC_LED, VOICE_ENHANCEMENT_TOGGLE,
   VOICE_ENHANCEMENT_LEVEL, BLUETOOTH_PAIRING, SUBWOOFER, ECO_MODE,
   MAX_DISPLAY, AMBEO_MODE, NIGHT_MODE, SOUND_FEEDBACK}

\* The capability sets of the devices explored: no flag, one flag, all
\* flags but one, all flags.
CapabilitySets ==
  {S \in SUBSET PolledCapabilities :
     Cardinality(S) <= 1 \/ Cardinality(S) >= Cardinality(PolledCapabilities) - 1}

\* The device getters of the api object that a refresh awaits.
Getters ==
  {"get_volume", "is_mute", "get_state", "get_current_source",
   "get_current_preset", "get_ambeo_mode", "get_night_mode",
   "get_sound_feedback", "get_bluetooth_pairing_state",
   "get_logo_brightness", "get_logo_state", "get_led_bar_brightness",
   "get_subwoofer_status", "get_subwoofer_volume", "get_voice_enhancement",
   "get_voice_enhancement_level", "get_codec_led_brightness",
   "get_display_brightness", "get_eco_mode"}

\* What api.get_state() reports (the keys of media_player.STATE_DICT).
PowerStates == {"playing", "online", "networkStandby"}

\* What a getter does when awaited: return, or raise one of these.
GetterRaises == {"AmbeoAuthError", "AmbeoConnectionError", "Exception"}

\* The behaviours of the api object during one refresh: every getter
\* returns, one getter raises, or two getters raise.
AllReturn == [g \in Getters |-> "ok"]
Behaviours ==
  {AllReturn}
  \cup {[AllReturn EXCEPT ![g] = k] : g \in Getters, k \in GetterRaises}
  \cup {[AllReturn EXCEPT ![p[1]] = p[3], ![p[2]] = p[4]] :
          p \in {q \in Getters \X Getters \X GetterRaises \X GetterRaises :
                   q[1] # q[2]}}

\* UPDATE_INTERVAL = timedelta(seconds=30)
UPDATE_INTERVAL == 30

\* Python's None as a value of the data dict
NoValue == "None"

\* The value a getter returns: the device's power state for get_state,
\* otherwise an opaque value that names the getter it came from.
returned(g, power) == IF g = "get_state" THEN power ELSE g

\* The result of one coroutine handed to asyncio.gather: the exception it
\* raised ("none": it returned), its value, and the getters it awaited.
Returned(v, called) == [raised |-> "none", value |-> v, calls |-> called]
Raised(e, called) == [raised |-> e, value |-> [v |-> NoValue], calls |-> called]

\* return await self.api.<g>()
fetch_plain(g, beh, power) ==
  IF beh[g] = "ok" THEN Returned([v |-> returned(g, power)], {g})
  ELSE Raised(beh[g], {g})

\* if self.api.has_capability(cap): return await self.api.<g>()
\* return None
fetch_gated(cap, g, caps, beh, power) ==
  IF cap \in caps THEN fetch_plain(g, beh, power)
  ELSE Returned([v |-> NoValue], {})

\* if has_capability(cap): return {k1: await g1(), k2: await g2()}
\* (the dict display awaits g1 first; g2 is not reached when g1 raises)
fetch_pair(cap, k1, g1, k2, g2, caps, beh, power) ==
  IF cap \notin caps THEN Returned([v |-> NoValue], {})
  ELSE IF beh[g1] # "ok" THEN Raised(beh[g1], {g1})
  ELSE IF beh[g2] # "ok" THEN Raised(beh[g2], {g1, g2})
  ELSE Returned((k1 :> returned(g1, power)) @@ (k2 :> returned(g2, power)),
                {g1, g2})

_fetch_volume(caps, beh, power) == fetch_plain("get_volume", beh, power)
_fetch_mute(caps, beh, power) == fetch_plain("is_mute", beh, power)
_fetch_power_state(caps, beh, power) == fetch_plain("get_state", beh, power)
_fetch_source(caps, beh, power) ==
  fetch_plain("get_current_source", beh, power)
_fetch_preset(caps, beh, power) ==
  fetch_plain("get_current_preset", beh, power)
_fetch_ambeo_mode(caps, beh, power) ==
  fetch_gated(AMBEO_MODE, "get_ambeo_mode", caps, beh, power)
_fetch_night_mode(caps, beh, power) ==
  fetch_gated(NIGHT_MODE, "get_night_mode", caps, beh, power)
_fetch_sound_feedback(caps, beh, power) ==
  fetch_gated(SOUND_FEEDBACK, "get_sound_feedback", caps, beh, power)
_fetch_bluetooth_pairing(caps, beh, power) ==
  fetch_gated(BLUETOOTH_PAIRING, "get_bluetooth_pairing_state", caps, beh,
              power)
\* {"brightness": get_logo_brightness(), "state": get_logo_state()}
_fetch_logo_brightness(caps, beh, power) ==
  fetch_pair(AMBEO_LOGO, "brightness", "get_logo_brightness",
             "state", "get_logo_state", caps, beh, power)
_fetch_led_bar_brightness(caps, beh, power) ==
  fetch_gated(LED_BAR, "get_led_bar_brightness", caps, beh, power)
\* {"status": get_subwoofer_status(), "volume": get_subwoofer_volume()}
_fetch_subwoofer(caps, beh, power) ==
  fetch_pair(SUBWOOFER, "status", "get_subwoofer_status",
             "volume", "get_subwoofer_volume", caps, beh, power)
\* {"enabled": get_voice_enhancement(),
\*  "level": get_voice_enhancement_level() if has_capability(LEVEL) else None}
_fetch_voice_enhancement(caps, beh, power) ==
  IF VOICE_ENHANCEMENT_TOGGLE \notin caps THEN Returned([v |-> NoValue], {})
  ELSE IF beh["get_voice_enhancement"] # "ok"
  THEN Raised(beh["get_voice_enhancement"], {"get_voice_enhancement"})
  ELSE IF VOICE_ENHANCEMENT_LEVEL \notin caps
  THEN Returned([enabled |-> returned("get_voice_enhancement", power),
                 level |-> NoValue], {"get_voice_enhancement"})
  ELSE IF beh["get_voice_enhancement_level"] # "ok"
  THEN Raised(beh["get_voice_enhancement_level"],
              {"get_voice_enhancement", "get_voice_enhancement_level"})
  ELSE Returned([enabled |-> returned("get_voice_enhancement", power),
                 level |-> returned("get_voice_enhancement_level", power)],
                {"get_voice_enhancement", "get_voice_enhancement_level"})
_fetch_codec_led_brightness(caps, beh, power) ==
  fetch_gated(CODEC_LED, "get_codec_led_brightness", caps, beh, power)
_fetch_display_brightness(caps, beh, power) ==
  fetch_gated(MAX_DISPLAY, "get_display_brightness", caps, beh, power)
_fetch_eco_mode(caps, beh, power) ==
  fetch_gated(ECO_MODE, "get_eco_mode", caps, beh, power)

\* results = await asyncio.gather(..., return_exceptions=True): the
\* results in the order of the arguments, exceptions in place.
gather(caps, beh, power) ==
  << _fetch_volume(caps, beh, power),
     _fetch_mute(caps, beh, power),
     _fetch_power_state(caps, beh, power),
     _fetch_source(caps, beh, power),
     _fetch_preset(caps, beh, power),
     _fetch_ambeo_mode(caps, beh, power),
     _fetch_night_mode(caps, beh, power),
     _fetch_sound_feedback(caps, beh, power),
     _fetch_bluetooth_pairing(caps, beh, power),
     _fetch_logo_brightness(caps, beh, power),
     _fetch_led_bar_brightness(caps, beh, power),
     _fetch_subwoofer(caps, beh, power),
     _fetch_voice_enhancement(caps, beh, power),
     _fetch_codec_led_brightness(caps, beh, power),
     _fetch_display_brightness(caps, beh, power),
     _fetch_eco_mode(caps, beh, power) >>

\* The key list with two neighbours exchanged.
keys_exchanged ==
  << "volume", "mute", "power_state", "preset", "source", "ambeo_mode",
     "night_mode", "sound_feedback", "bluetooth_pairing", "logo_state",
     "led_bar_brightness", "subwoofer", "voice_enhancement",
     "codec_led_brightness", "display_brightness", "eco_mode" >>

\* keys = [...] of _async_update_data
keys ==
  << "volume", "mute", "power_state", "source", "preset", "ambeo_mode",
     "night_mode", "sound_feedback", "bluetooth_pairing", "logo_state",
     "led_bar_brightness", "subwoofer", "voice_enhancement",
     "codec_led_brightness", "display_brightness", "eco_mode" >>

\* zip(keys, results, strict=False)
zip_len(ks, results) == IF Len(ks) < Len(results) THEN Len(ks) ELSE Len(results)

RECURSIVE fill_data(_, _, _, _)
\* The for loop over zip(keys, results), from pair i with the dict `data`
\* built so far: the dict when the loop ends, or the exception it raises.
fill_data(ks, results, i, data) ==
  IF i > zip_len(ks, results) THEN [raised |-> "none", data |-> data]
  ELSE IF results[i].raised # "none"
  THEN IF results[i].raised = "AmbeoAuthError"
       THEN [raised |-> "ConfigEntryAuthFailed", data |-> data]
       ELSE fill_data(ks, results, i + 1, (ks[i] :> [v |-> NoValue]) @@ data)
  ELSE fill_data(ks, results, i + 1, (ks[i] :> results[i].value) @@ data)

\* The except clauses of _async_update_data, tried in order, for an
\* exception raised inside its try block.
except_clauses(exc) ==
  IF exc = "AmbeoAuthError" THEN "ConfigEntryAuthFailed"
  ELSE IF exc = "AmbeoConnectionError" THEN "UpdateFailed"
  ELSE "UpdateFailed"

EmptyDict == [k \in {} |-> NoValue]

\* The end of the try statement: `return data` when the loop `body` ended,
\* otherwise what the except clauses make of its exception.
try_result(body, results) ==
  IF body.raised = "none"
  THEN [raised |-> "none", data |-> body.data, results |-> results]
  ELSE [raised |-> except_clauses(body.raised), data |-> EmptyDict,
        results |-> results]

\* The try block from the gathered results on.
try_body(results) ==
  try_result(fill_data(keys, results, 1, EmptyDict), results)

\* _async_update_data: what it raises ("none": it returns data).
_async_update_data(caps, beh, power) == try_body(gather(caps, beh, power))

NoRefresh ==
  [pc |-> "idle", raised |-> "none", data |-> EmptyDict, results |-> <<>>,
   power |-> NoValue]

\* AmbeoDataUpdateCoordinator.__init__ for a device with the given flags
CoordinatorInit ==
  /\ capabilities \in CapabilitySets
  /\ update_interval = UPDATE_INTERVAL
  /\ observed_state = NoValue
  /\ refresh = NoRefresh

\* One refresh of the coordinator: the host calls _async_update_data while
\* the device is in power state `power` and its getters behave as `beh`.
Refresh ==
  /\ refresh.pc = "idle"
  /\ \E power \in PowerStates, beh \in Behaviours :
     \E r \in {_async_update_data(capabilities, beh, power)} :
         /\ refresh' = [pc |-> "done", raised |-> r.raised, data |-> r.data,
                        results |-> r.results, power |-> power]
         /\ observed_state' =
              IF r.raised = "none" THEN r.data["power_state"].v
              ELSE observed_state
  /\ UNCHANGED <<capabilities, update_interval, non_coord_vars>>

\* The host has taken the result of the refresh.
RefreshTaken ==
  /\ refresh.pc = "done"
  /\ refresh' = NoRefresh
  /\ UNCHANGED <<capabilities, update_interval, observed_state,
                 non_coord_vars>>

\* ------------------------------------------------------------------------
\* config_flow.py : AmbeoConfigFlow, AmbeoOptionsFlowHandler
\* ------------------------------------------------------------------------

\* The addresses a user submits and the devices of the network.
Hosts == {"192.168.1.100", "192.168.1.101"}
Serials == {"serial_1", "serial_2"}
\* How a connection attempt to a host without a device ends.
ConnectFailures == {"ClientError", "TimeoutError"}

\* api.get_name() of the device with the given serial
get_name(serial) == IF serial = "serial_1" THEN "Ambeo 1" ELSE "Ambeo 2"

\* validate_input: the info dict, or the exception it raises ("none": it
\* returns).  aiohttp.ClientError becomes CannotConnect, every other
\* exception UnknownError.
validate_input(net, host) ==
  IF net[host] \in Serials
  THEN [raised |-> "none", title |-> get_name(net[host]), serial |-> net[host]]
  ELSE IF net[host] = "ClientError"
  THEN [raised |-> "CannotConnect", title |-> NoValue, serial |-> NoValue]
  ELSE [raised |-> "UnknownError", title |-> NoValue, serial |-> NoValue]

\* validate_input replaced by AsyncMock(side_effect=Exception(...)), as
\* tests/test_config_flow.py does.
validate_input_mock ==
  [raised |-> "Exception", title |-> NoValue, serial |-> NoValue]

\* A FlowResult.  type "raise": the exception left the step.
\* `entry` is the position of the entry a reconfigure or options flow is
\* about (0: a user flow).
FlowResult(step, type, detail, host, info) ==
  [step |-> step, type |-> type, detail |-> detail, host |-> host,
   info |-> info, entry |-> 0]

\* The step did not await validate_input.
NotCalled == [raised |-> "not called", title |-> NoValue, serial |-> NoValue]

NoResult == FlowResult("none", "none", "", NoValue, NotCalled)

\* _abort_if_unique_id_configured never aborts.
never_configured(ents, unique_id) == FALSE

\* self._abort_if_unique_id_configured(): an entry of the domain has the
\* unique id of the flow.
unique_id_configured(ents, unique_id) ==
  \E i \in DOMAIN ents : ents[i].unique_id = unique_id

\* async_create_entry(title=info["title"], data=user_input) under the
\* unique id set by async_set_unique_id
create_entry(info, host) ==
  [unique_id |-> info.serial, title |-> info.title, data |-> host,
   options |-> NoValue]

\* AmbeoConfigFlow.async_step_user with the result `info` of
\* validate_input: the FlowResult and the entries afterwards.
async_step_user(ents, user_input, info) ==
  IF user_input = NoValue
  THEN [result |-> FlowResult("user", "form", "", user_input, info),
        entries |-> ents]
  ELSE IF info.raised = "none"
  THEN IF unique_id_configured(ents, info.serial)
       THEN [result |-> FlowResult("user", "abort", "already_configured",
                                   user_input, info),
             entries |-> ents]
       ELSE [result |-> FlowResult("user", "create_entry", "", user_input,
                                   info),
             entries |-> Append(ents, create_entry(info, user_input))]
  ELSE IF info.raised = "CannotConnect"
  THEN [result |-> FlowResult("user", "form", "cannot_connect", user_input,
                              info),
        entries |-> ents]
  ELSE IF info.raised = "UnknownError"
  THEN [result |-> FlowResult("user", "form", "unknown", user_input, info),
        entries |-> ents]
  ELSE [result |-> FlowResult("user", "raise", info.raised, user_input, info),
        entries |-> ents]

\* The user submits the user step (user_input None: the form is opened).
UserStep(user_input, mocked) ==
  /\ \E r \in {async_step_user(entries, user_input,
                    IF user_input = NoValue THEN NotCalled
                    ELSE IF mocked THEN validate_input_mock
                    ELSE validate_input(answering, user_input))} :
       /\ result' = r.result
       /\ entries' = r.entries
  /\ UNCHANGED <<answering, non_flow_vars>>

\* async_update_reload_and_abort(entry, data_updates=user_input)
update_data(ents, i, host) == [ents EXCEPT ![i].data = host]

\* AmbeoConfigFlow.async_step_reconfigure for the entry at position i.
async_step_reconfigure(ents, i, user_input, info) ==
  LET res(type, detail) ==
        [FlowResult("reconfigure", type, detail, user_input, info)
           EXCEPT !.entry = i]
  IN  IF user_input = NoValue
      THEN [result |-> res("form", ""), entries |-> ents]
      ELSE IF info.raised = "none"
      THEN IF info.serial # ents[i].unique_id
           THEN [result |-> res("form", "wrong_device"), entries |-> ents]
           ELSE [result |-> res("abort", "reconfigure_successful"),
                 entries |-> update_data(ents, i, user_input)]
      ELSE IF info.raised = "CannotConnect"
      THEN [result |-> res("form", "cannot_connect"), entries |-> ents]
      ELSE IF info.raised = "UnknownError"
      THEN [result |-> res("form", "unknown"), entries |-> ents]
      ELSE [result |-> res("raise", info.raised), entries |-> ents]

\* The user submits the reconfigure step of an entry.
ReconfigureStep(i, user_input, mocked) ==
  /\ i \in DOMAIN entries
  /\ \E r \in {async_step_reconfigure(entries, i, user_input,
                    IF user_input = NoValue THEN NotCalled
                    ELSE IF mocked THEN validate_input_mock
                    ELSE validate_input(answering, user_input))} :
       /\ result' = r.result
       /\ entries' = r.entries
  /\ UNCHANGED <<answering, non_flow_vars>>

\* user_input of the options step without a host (the key is Optional).
NoHost == ""

\* new_host and new_host != self.config_entry.data.get(CONF_HOST)
host_changed(entry, new_host) == new_host # NoHost /\ new_host # entry.data

\* OptionsFlow.async_create_entry(data=user_input): the entry's options
set_options(ents, i, user_input) ==
  [ents EXCEPT ![i].options = IF user_input = NoHost THEN NoValue
                              ELSE user_input]

\* AmbeoOptionsFlowHandler.async_step_init for the entry at position i;
\* `info` is the result of validate_input, called only for a changed host.
async_step_init(ents, i, user_input, info) ==
  LET res(type, detail) ==
        [FlowResult("init", type, detail, user_input, info) EXCEPT !.entry = i]
      errors ==
        IF ~host_changed(ents[i], user_input) THEN ""
        ELSE IF info.raised = "none"
        THEN IF info.serial # ents[i].unique_id THEN "wrong_device" ELSE ""
        ELSE IF info.raised = "CannotConnect" THEN "cannot_connect"
        ELSE IF info.raised = "UnknownError" THEN "unknown"
        ELSE "raise"
  IN  IF user_input = NoValue
      THEN [result |-> res("form", ""), entries |-> ents]
      ELSE IF errors = "raise"
      THEN [result |-> res("raise", info.raised), entries |-> ents]
      ELSE IF errors = ""
      THEN [result |-> res("create_entry", ""),
            entries |-> set_options(ents, i, user_input)]
      ELSE [result |-> res("form", errors), entries |-> ents]

\* The user submits the options step of an entry.
OptionsStep(i, user_input, mocked) ==
  /\ i \in DOMAIN entries
  /\ \E r \in {async_step_init(entries, i, user_input,
                    IF user_input = NoValue
                       \/ ~host_changed(entries[i], user_input)
                    THEN NotCalled
                    ELSE IF mocked THEN validate_input_mock
                    ELSE validate_input(answering, user_input))} :
       /\ result' = r.result
       /\ entries' = r.entries
  /\ UNCHANGED <<answering, non_flow_vars>>

\* A device gets another address, leaves the network or comes back.
NetworkChange(host, who) ==
  /\ answering[host] # who
  /\ answering' = [answering EXCEPT ![host] = who]
  /\ UNCHANGED <<entries, result, non_flow_vars>>

\* No flow has run and no entry exists.
FlowInit ==
  /\ entries = <<>>
  /\ answering \in [Hosts -> Serials \cup ConnectFailures]
  /\ result = NoResult

\* ------------------------------------------------------------------------
\* __init__.py : async_setup_entry, async_unload_entry
\* ------------------------------------------------------------------------

EntryIds == {"entry_1", "entry_2"}

\* The device API object AmbeoAPIFactory.create_api returns for an entry.
ApiOf(e) == IF e = "entry_1" THEN "api_1" ELSE "api_2"
\* AmbeoDevice(serial, name, MANUFACTURER, model, version, host, port)
AmbeoDevice(e) == IF e = "entry_1" THEN "device_1" ELSE "device_2"

\* entry.runtime_data before anything is assigned to it.
Unset == "unset"

DomainServices ==
  {"set_expert_audio_levels", "reset_expert_settings", "set_eq_preset"}

\* AmbeoDataUpdateCoordinator.__init__(self, hass, entry, api)
AmbeoDataUpdateCoordinator(entry, api) == [config_entry |-> entry, api |-> api]

\* coordinator = AmbeoDataUpdateCoordinator(hass, ambeo_api, entry.entry_id)
new_coordinator(e) == AmbeoDataUpdateCoordinator(ApiOf(e), e)

\* A store that replaces the whole mapping by the new entry's record.
store_alone(data, e) ==
  [x \in {e} |-> [api |-> ApiOf(e), device |-> AmbeoDevice(e),
                  coordinator |-> new_coordinator(e)]]

\* hass.data[DOMAIN][entry.entry_id] = {...}
store(data, e) ==
  [x \in DOMAIN data \cup {e} |->
     IF x = e THEN [api |-> ApiOf(e), device |-> AmbeoDevice(e),
                    coordinator |-> new_coordinator(e)]
     ELSE data[x]]

\* hass.data[DOMAIN].pop(entry.entry_id)
pop(data, e) == [x \in DOMAIN data \ {e} |-> data[x]]

\* if not hass.services.has_service(DOMAIN, "set_expert_audio_levels"):
\*     await _async_setup_services(hass)
setup_services(svc) ==
  IF "set_expert_audio_levels" \notin svc THEN svc \cup DomainServices
  ELSE svc

\* The getters of a coordinator whose api is the entry id (a str): every
\* attribute access raises AttributeError.
ApiIsStr == [g \in Getters |-> "Exception"]

\* The config entries framework calls async_setup_entry, which awaits
\* create_api and the device's serial, model, name and version.
SetupEntry(e) ==
  /\ entry_state[e] = "not_loaded"
  /\ entry_state' = [entry_state EXCEPT ![e] = "connecting"]
  /\ setup_result' = [setup_result EXCEPT ![e] = "none"]
  /\ UNCHANGED <<hass_data, services, runtime_data, entities, service_call,
                 capabilities, non_setup_vars>>

\* The device answered or not; the coordinator is constructed with the api
\* object in the place of the entry, so its __init__ reads `.data` of the
\* api object (api_has_data: the object has that attribute).
Connected(e, outcome, api_has_data) ==
  /\ entry_state[e] = "connecting"
  /\ IF outcome # "ok"
     THEN /\ entry_state' = [entry_state EXCEPT ![e] = "not_loaded"]
          /\ setup_result' = [setup_result EXCEPT ![e] = "ConfigEntryNotReady"]
     ELSE IF ~api_has_data
     THEN /\ entry_state' = [entry_state EXCEPT ![e] = "not_loaded"]
          /\ setup_result' = [setup_result EXCEPT ![e] = "AttributeError"]
     ELSE /\ entry_state' = [entry_state EXCEPT ![e] = "first_refresh"]
          /\ UNCHANGED setup_result
  /\ UNCHANGED <<hass_data, services, runtime_data, entities, service_call,
                 capabilities, non_setup_vars>>

\* async_config_entry_first_refresh returned: the record is stored and the
\* services are registered, up to the await of async_forward_entry_setups.
FirstRefreshed(e) ==
  /\ entry_state[e] = "first_refresh"
  /\ IF _async_update_data(capabilities, ApiIsStr, "online").raised = "none"
     THEN /\ hass_data' = store(hass_data, e)
          /\ services' = setup_services(services)
          /\ entry_state' = [entry_state EXCEPT ![e] = "forwarding"]
          /\ UNCHANGED setup_result
     ELSE /\ entry_state' = [entry_state EXCEPT ![e] = "not_loaded"]
          /\ setup_result' = [setup_result EXCEPT ![e] = "ConfigEntryNotReady"]
          /\ UNCHANGED <<hass_data, services>>
  /\ UNCHANGED <<runtime_data, entities, service_call, capabilities,
                 non_setup_vars>>

\* ------------------------------------------------ the entity platforms
\* Capability flags tested by the platforms only.
MAX_LOGO == "AmbeoMaxLogo"
RESET_EXPERT_SETTINGS == "ResetExpertSettings"
CENTER_SPEAKER_LEVEL == "CenterSpeakerLevel"
SIDE_FIRING_LEVEL == "SideFiringLevel"
UP_FIRING_LEVEL == "UpFiringLevel"

AllCapabilities ==
  PolledCapabilities \cup {MAX_LOGO, RESET_EXPERT_SETTINGS,
                           CENTER_SPEAKER_LEVEL, SIDE_FIRING_LEVEL,
                           UP_FIRING_LEVEL}

\* entities.append(<name>) under `if api.has_capability(cap)`
gated(cap, name, caps) == IF cap \in caps THEN {name} ELSE {}

\* light.async_setup_entry: the entities handed to async_add_entities.
\* Reading config_entry.runtime_data while it is unset raises
\* AttributeError and nothing is added.
light_setup(rd, caps) ==
  IF rd = Unset THEN {}
  ELSE gated(AMBEO_LOGO, "AmbeoLogo", caps)
       \cup gated(LED_BAR, "LEDBar", caps)
       \cup gated(CODEC_LED, "CodecLED", caps)
       \cup gated(MAX_LOGO, "AmbeoMaxLogo", caps)
       \cup gated(MAX_DISPLAY, "AmbeoMaxDisplay", caps)

\* switch.async_setup_entry
switch_setup(rd, caps, has_subwoofer) ==
  IF rd = Unset THEN {}
  ELSE {"NightMode", "AmbeoMode", "SoundFeedback"}
       \cup gated(VOICE_ENHANCEMENT_TOGGLE, "VoiceEnhancementMode", caps)
       \cup gated(BLUETOOTH_PAIRING, "AmbeoBluetoothPairing", caps)
       \cup (IF has_subwoofer THEN gated(SUBWOOFER, "SubWooferStatus", caps)
             ELSE {})

\* number.async_setup_entry
number_setup(rd, caps, has_subwoofer) ==
  IF rd = Unset THEN {}
  ELSE (IF has_subwoofer THEN gated(SUBWOOFER, "SubWooferVolume", caps)
        ELSE {})
       \cup gated(VOICE_ENHANCEMENT_LEVEL, "VoiceEnhancementLevel", caps)
       \cup gated(CENTER_SPEAKER_LEVEL, "CenterSpeakerLevel", caps)
       \cup gated(SIDE_FIRING_LEVEL, "SideFiringLevel", caps)
       \cup gated(UP_FIRING_LEVEL, "UpFiringLevel", caps)

\* button.async_setup_entry over BUTTON_DESCRIPTIONS
button_setup(rd, caps) ==
  IF rd = Unset THEN {}
  ELSE {"reboot"}
       \cup gated(RESET_EXPERT_SETTINGS, "reset_expert_settings", caps)

\* binary_sensor.async_setup_entry over BINARY_SENSOR_DESCRIPTIONS
binary_sensor_setup(rd, caps) ==
  IF rd = Unset THEN {} ELSE gated(ECO_MODE, "eco_mode", caps)

\* What async_forward_entry_setups adds for the capability-gated
\* platforms.
forward_entry_setups(rd, caps, has_subwoofer) ==
  light_setup(rd, caps) \cup switch_setup(rd, caps, has_subwoofer)
  \cup number_setup(rd, caps, has_subwoofer) \cup button_setup(rd, caps)
  \cup binary_sensor_setup(rd, caps)

\* async_forward_entry_setups returned and async_setup_entry returns True.
Forwarded(e, has_subwoofer) ==
  /\ entry_state[e] = "forwarding"
  /\ entities' = [entities EXCEPT ![e] =
                    forward_entry_setups(runtime_data[e], capabilities,
                                         has_subwoofer)]
  /\ entry_state' = [entry_state EXCEPT ![e] = "loaded"]
  /\ setup_result' = [setup_result EXCEPT ![e] = "True"]
  /\ UNCHANGED <<hass_data, services, runtime_data, service_call,
                 capabilities, non_setup_vars>>

\* if not hass.data[DOMAIN]: hass.services.async_remove(...) three times
remove_services(data, svc) ==
  IF DOMAIN data = {} THEN svc \ DomainServices ELSE svc

\* async_unload_entry after async_unload_platforms returned unload_ok.
UnloadEntry(e, unload_ok) ==
  /\ entry_state[e] = "loaded"
  /\ IF unload_ok /\ e \in DOMAIN hass_data
     THEN /\ hass_data' = pop(hass_data, e)
          /\ services' = remove_services(pop(hass_data, e), services)
     ELSE UNCHANGED <<hass_data, services>>
  /\ IF unload_ok
     THEN /\ entry_state' = [entry_state EXCEPT ![e] = "not_loaded"]
          /\ entities' = [entities EXCEPT ![e] = {}]
          /\ setup_result' = [setup_result EXCEPT ![e] = "unloaded"]
     ELSE /\ setup_result' = [setup_result EXCEPT ![e] = "unload_failed"]
          /\ UNCHANGED <<entry_state, entities>>
  /\ UNCHANGED <<runtime_data, service_call, capabilities, non_setup_vars>>

\* ------------------------------------------------------------- light.py
Lights == {"LEDBar", "CodecLED", "AmbeoMaxLogo", "AmbeoMaxDisplay",
           "AmbeoLogo"}

\* The device brightness setter of a light.
brightness_setter(light) ==
  CASE light = "LEDBar" -> "set_led_bar_brightness"
    [] light = "CodecLED" -> "set_codec_led_brightness"
    [] light = "AmbeoMaxDisplay" -> "set_display_brightness"
    [] OTHER -> "set_logo_brightness"

\* The awaits of async_turn_on, in order.
turn_on_awaits(light) ==
  IF light = "AmbeoLogo"
  THEN <<"change_logo_state", brightness_setter(light),
         "async_request_refresh">>
  ELSE <<brightness_setter(light), "async_request_refresh">>

\* async_turn_on when the call named `raising` raises ("none": no call
\* raises): the calls made, the raising one being the last.
async_turn_on(light, raising) ==
  LET cs == turn_on_awaits(light)
      at == {i \in DOMAIN cs : cs[i] = raising}
  IN  IF at = {} THEN cs
      ELSE SubSeq(cs, 1, CHOOSE i \in at : \A j \in at : i <= j)

NoServiceCall ==
  [entry |-> "none", light |-> "none", raising |-> "none", calls |-> <<>>]

\* The light.turn_on service is called for the entity of `light` of a
\* loaded entry; a call that names no existing entity reaches none.
LightTurnOn(e, light, raising) ==
  /\ entry_state[e] = "loaded"
  /\ service_call' =
       [entry |-> e, light |-> light, raising |-> raising,
        calls |-> IF light \in entities[e] THEN async_turn_on(light, raising)
                  ELSE <<>>]
  /\ UNCHANGED <<entry_state, setup_result, hass_data, services,
                 runtime_data, entities, capabilities, non_setup_vars>>

\* The capability sets of the devices set up.
SetupCapabilitySets == {{}, {LED_BAR}, AllCapabilities}

\* Entries exist, none has been set up.
SetupInit ==
  /\ entry_state = [e \in EntryIds |-> "not_loaded"]
  /\ setup_result = [e \in EntryIds |-> "none"]
  /\ hass_data = [e \in {} |-> Unset]
  /\ services = {}
  /\ runtime_data = [e \in EntryIds |-> Unset]
  /\ entities = [e \in EntryIds |-> {}]
  /\ service_call = NoServiceCall

\* ------------------------------------------------------------- util.py
\* Largest max_retries and largest delay parameter explored.
RetryMaxRetries == 2
RetryMaxDelay == 3

\* exponential_base values explored.
ExponentialBases == {1, 2}

\* What one await of the wrapped function does: it returns, raises an
\* exception of the `exceptions` tuple, or raises another exception.
FuncResults == {"returned", "ValueError", "KeyError", "uncaught"}

\* min(a, b)
min(a, b) == IF a <= b THEN a ELSE b

\* wrapper(): delay = initial_delay; last_exception = None; the for loop
\* over range(max_retries + 1) is entered unless the range is empty.
wrapper_start(retries, initial_delay, max_delay, exponential_base) ==
  [max_retries |-> retries, initial_delay |-> initial_delay,
   max_delay |-> max_delay, exponential_base |-> exponential_base,
   pc |-> IF retries + 1 > 0 THEN "call" ELSE "after_loop",
   attempt |-> 0, delay |-> initial_delay, last_exception |-> NoValue,
   calls |-> 0, sleeps |-> <<>>, outcome |-> NoValue]

\* No decorated function is being called.
NoWrapper == wrapper_start(0, 1, 1, 1)

\* return await func(*args, **kwargs), with its except clause up to the
\* await of asyncio.sleep(delay).
WrapperCall(res) ==
  /\ wrapper.pc = "call"
  /\ wrapper' =
       IF res \in {"returned", "uncaught"}
       THEN [wrapper EXCEPT !.calls = @ + 1, !.pc = "done", !.outcome = res]
       ELSE IF wrapper.attempt = wrapper.max_retries
       THEN [wrapper EXCEPT !.calls = @ + 1, !.last_exception = res,
                            !.pc = "done", !.outcome = res]
       ELSE [wrapper EXCEPT !.calls = @ + 1, !.last_exception = res,
                            !.pc = "sleep",
                            !.sleeps = Append(@, wrapper.delay)]
  /\ UNCHANGED non_retry_vars

\* asyncio.sleep(delay) returned: delay = min(delay * exponential_base,
\* max_delay) and the loop continues with the next attempt.
WrapperWake ==
  /\ wrapper.pc = "sleep"
  /\ wrapper' = [wrapper EXCEPT
                   !.delay = min(@ * wrapper.exponential_base,
                                 wrapper.max_delay),
                   !.attempt = @ + 1,
                   !.pc = "call"]
  /\ UNCHANGED non_retry_vars

\* The loop ended without a return: if last_exception: raise it;
\* return None.
WrapperAfterLoop ==
  /\ wrapper.pc = "after_loop"
  /\ wrapper' = [wrapper EXCEPT
                   !.pc = "done",
                   !.outcome = IF wrapper.last_exception # NoValue
                               THEN wrapper.last_exception ELSE "None"]
  /\ UNCHANGED non_retry_vars

RetryIdle == wrapper = NoWrapper

RetryInit ==
  \E retries \in -1 .. RetryMaxRetries,
     initial_delay \in 1 .. RetryMaxDelay,
     max_delay \in 1 .. RetryMaxDelay,
     exponential_base \in ExponentialBases :
    wrapper = wrapper_start(retries, initial_delay, max_delay,
                            exponential_base)

\* ------------------------------------------------------------------------
\* Specifications
\* ------------------------------------------------------------------------

\* The config flow of the other specifications: never started.
FlowIdle ==
  /\ entries = <<>>
  /\ answering = [h \in Hosts |-> "ClientError"]
  /\ result = NoResult

\* The coordinator of the client specification: constructed, never asked.
CoordinatorIdle ==
  /\ capabilities = {}
  /\ update_interval = UPDATE_INTERVAL
  /\ observed_state = NoValue
  /\ refresh = NoRefresh

\* The client of the coordinator specification: constructed, never asked.
ClientIdle ==
  /\ ClientInit
  /\ failure_threshold = 2

Init == ClientInit /\ CoordinatorIdle /\ FlowIdle /\ SetupInit /\ RetryIdle

Next ==
  \/ \E t \in Tasks, retry \in BOOLEAN : RequestStart(t, retry)
  \/ \E t \in Tasks : LimiterWake(t)
  \/ \E t \in Tasks, resp \in Responses : HttpResponse(t, resp)
  \/ \E t \in Tasks : BackoffWake(t)
  \/ \E t \in Tasks : Return(t)
  \/ ReadCircuitState
  \/ Tick

\* The API client under concurrent request() calls.
Spec == Init /\ [][Next]_vars

\* The one task of a caller that awaits each request() before the next.
Caller == 1

NextSequential ==
  \/ \E retry \in BOOLEAN : RequestStart(Caller, retry)
  \/ LimiterWake(Caller)
  \/ \E resp \in Responses : HttpResponse(Caller, resp)
  \/ BackoffWake(Caller)
  \/ Return(Caller)
  \/ Tick

\* The API client under a single sequential caller of request().
SpecSequential == Init /\ [][NextSequential]_vars

InitCoordinator ==
  ClientIdle /\ CoordinatorInit /\ FlowIdle /\ SetupInit /\ RetryIdle

NextCoordinator ==
  \/ Refresh
  \/ RefreshTaken

\* The polling coordinator under refreshes of a device.
SpecCoordinator == InitCoordinator /\ [][NextCoordinator]_vars

InitConfigFlow ==
  ClientIdle /\ CoordinatorIdle /\ FlowInit /\ SetupInit /\ RetryIdle

NextConfigFlow ==
  \/ \E user_input \in Hosts \cup {NoValue}, mocked \in BOOLEAN :
       UserStep(user_input, mocked)
  \/ \E i \in 1..Cardinality(Serials), user_input \in Hosts \cup {NoValue},
          mocked \in BOOLEAN :
       ReconfigureStep(i, user_input, mocked)
  \/ \E i \in 1..Cardinality(Serials),
          user_input \in Hosts \cup {NoValue, NoHost}, mocked \in BOOLEAN :
       OptionsStep(i, user_input, mocked)
  \/ \E host \in Hosts, who \in Serials \cup ConnectFailures :
       NetworkChange(host, who)

\* The config and options flows over a changing network.
SpecConfigFlow == InitConfigFlow /\ [][NextConfigFlow]_vars

InitSetup ==
  /\ ClientIdle
  /\ capabilities \in SetupCapabilitySets
  /\ update_interval = UPDATE_INTERVAL
  /\ observed_state = NoValue
  /\ refresh = NoRefresh
  /\ FlowIdle
  /\ SetupInit
  /\ RetryIdle

NextSetup ==
  \/ \E e \in EntryIds : SetupEntry(e)
  \/ \E e \in EntryIds, outcome \in {"ok", "ClientError"},
          api_has_data \in BOOLEAN :
       Connected(e, outcome, api_has_data)
  \/ \E e \in EntryIds : FirstRefreshed(e)
  \/ \E e \in EntryIds, has_subwoofer \in BOOLEAN :
       Forwarded(e, has_subwoofer)
  \/ \E e \in EntryIds, unload_ok \in BOOLEAN : UnloadEntry(e, unload_ok)
  \/ \E e \in EntryIds, light \in Lights,
          raising \in {"none", "change_logo_state", "set_led_bar_brightness",
                       "set_logo_brightness"} :
       LightTurnOn(e, light, raising)

\* Setup and unload of the config entries, their platforms and the light
\* service.
SpecSetup == InitSetup /\ [][NextSetup]_vars

InitRetry ==
  ClientIdle /\ CoordinatorIdle /\ FlowIdle /\ SetupInit /\ RetryInit

NextRetry ==
  \/ \E res \in FuncResults : WrapperCall(res)
  \/ WrapperWake
  \/ WrapperAfterLoop

\* One call of a function decorated with retry_with_backoff.
SpecRetry == InitRetry /\ [][NextRetry]_vars

\* ------------------------------------------------------------------------
\* Properties
\* ------------------------------------------------------------------------

\* The step in which request() of task t ends (returns or raises).
Finishes(t) == task[t].pc # "done" /\ task'[t].pc = "done"

\* The step in which task t calls request().
Calls(t) == task[t].pc = "idle" /\ task'[t].pc # "idle"

\* C1 as stated: whenever a request() exhausts its retries and is at least
\* the failure_threshold-th such request in a row, with no successful
\* request in between, is_open is true right after it.
C1_Original ==
  [][(streak' > streak /\ streak' >= failure_threshold)
       => is_open(circuit_breaker', now', timeout_seconds).open]_vars

\* C1 amended: the failures that count are those since the count was last
\* reset to 0, by a successful request or by an is_open that found the
\* timeout elapsed.  The stored state is ERROR exactly when
\* failure_threshold such failures have been recorded; is_open is then true
\* while fewer than timeout_seconds have passed since the last failure, and
\* a request() called in that time raises AmbeoCircuitBreakerError; with
\* fewer failures since the last reset the circuit is closed.
C1_OpensAtThreshold ==
  [][/\ (since_reset' >= failure_threshold)
          <=> (circuit_breaker'.state = ERROR)
     /\ (/\ since_reset' >= failure_threshold
         /\ now' - circuit_breaker'.last_failure_time < timeout_seconds)
          => is_open(circuit_breaker', now', timeout_seconds).open
     /\ since_reset' < failure_threshold
          => ~is_open(circuit_breaker', now', timeout_seconds).open
     /\ \A t \in Tasks :
          (/\ Calls(t)
           /\ since_reset >= failure_threshold
           /\ now - circuit_breaker.last_failure_time < timeout_seconds)
            => task'[t].outcome = "AmbeoCircuitBreakerError"]_vars

\* C1 witness: failure_threshold = 2 failures in a row have opened the
\* circuit and the request() called next has been refused.
C1_Witness ==
  /\ failure_threshold = 2
  /\ since_reset = 2
  /\ streak = 2
  /\ circuit_breaker.state = ERROR
  /\ \E t \in Tasks : /\ task[t].pc = "done"
                      /\ task[t].outcome = "AmbeoCircuitBreakerError"

\* C2: while the circuit breaker is open and fewer than timeout_seconds
\* have elapsed since the last recorded failure, a request() call raises
\* AmbeoCircuitBreakerError without an HTTP attempt and leaves
\* requests_total, failures_total, the limiter's timestamps and the
\* breaker unchanged.
C2_OpenRefuses ==
  [][\A t \in Tasks :
       (/\ Calls(t)
        /\ circuit_breaker.state = ERROR
        /\ now - circuit_breaker.last_failure_time < timeout_seconds)
         => /\ task'[t].pc = "done"
            /\ task'[t].outcome = "AmbeoCircuitBreakerError"
            /\ task'[t].sent = 0
            /\ request_count' = request_count
            /\ failure_count' = failure_count
            /\ timestamps' = timestamps
            /\ circuit_breaker' = circuit_breaker]_vars

\* C2 witness: a request() refused in the last time unit of the cool-down,
\* after earlier requests were sent.
C2_Witness ==
  /\ circuit_breaker.state = ERROR
  /\ timeout_seconds = 2
  /\ now - circuit_breaker.last_failure_time = 1
  /\ request_count > 0
  /\ timestamps # <<>>
  /\ \E t \in Tasks : /\ task[t].pc = "done"
                      /\ task[t].outcome = "AmbeoCircuitBreakerError"

C4_Original == current_count(timestamps, now, period_seconds) <= max_calls

\* C5 as stated: the update interval follows the observed state, so a
\* refresh that observes the device in standby after one that observed it
\* playing changes update_interval.
C5_Original ==
  [][(/\ observed_state = "playing"
      /\ observed_state' = "networkStandby")
       => update_interval' # update_interval]_vars

\* A fetch of the last refresh raised exception e.
FetchRaised(e) ==
  \E i \in 1..Len(refresh.results) : refresh.results[i].raised = e

\* C6 as stated: a refresh in which any fetch raised AmbeoAuthError raises
\* ConfigEntryAuthFailed.
C6_Original ==
  (refresh.pc = "done" /\ FetchRaised("AmbeoAuthError"))
    => refresh.raised = "ConfigEntryAuthFailed"

\* C7 as stated: a refresh in which a fetch raised AmbeoConnectionError
\* (and none raised AmbeoAuthError) raises UpdateFailed instead of
\* returning data.
C7_Original ==
  (/\ refresh.pc = "done"
   /\ FetchRaised("AmbeoConnectionError")
   /\ ~FetchRaised("AmbeoAuthError"))
    => refresh.raised = "UpdateFailed"

\* The value of a key read from one getter, None without the capability.
C8_Gated(cap, g) == IF cap \in capabilities THEN [v |-> g] ELSE [v |-> NoValue]

\* The dict C8 describes for a device with the flags `capabilities` in
\* power state `power`, each getter returning the value named after it.
C8_Expected(power) ==
  [volume |-> [v |-> "get_volume"],
   mute |-> [v |-> "is_mute"],
   power_state |-> [v |-> power],
   source |-> [v |-> "get_current_source"],
   preset |-> [v |-> "get_current_preset"],
   ambeo_mode |-> C8_Gated(AMBEO_MODE, "get_ambeo_mode"),
   night_mode |-> C8_Gated(NIGHT_MODE, "get_night_mode"),
   sound_feedback |-> C8_Gated(SOUND_FEEDBACK, "get_sound_feedback"),
   bluetooth_pairing |->
     C8_Gated(BLUETOOTH_PAIRING, "get_bluetooth_pairing_state"),
   logo_state |->
     IF AMBEO_LOGO \in capabilities
     THEN [brightness |-> "get_logo_brightness", state |-> "get_logo_state"]
     ELSE [v |-> NoValue],
   led_bar_brightness |-> C8_Gated(LED_BAR, "get_led_bar_brightness"),
   subwoofer |->
     IF SUBWOOFER \in capabilities
     THEN [status |-> "get_subwoofer_status",
           volume |-> "get_subwoofer_volume"]
     ELSE [v |-> NoValue],
   voice_enhancement |->
     IF VOICE_ENHANCEMENT_TOGGLE \in capabilities
     THEN [enabled |-> "get_voice_enhancement",
           level |-> IF VOICE_ENHANCEMENT_LEVEL \in capabilities
                     THEN "get_voice_enhancement_level" ELSE NoValue]
     ELSE [v |-> NoValue],
   codec_led_brightness |-> C8_Gated(CODEC_LED, "get_codec_led_brightness"),
   display_brightness |-> C8_Gated(MAX_DISPLAY, "get_display_brightness"),
   eco_mode |-> C8_Gated(ECO_MODE, "get_eco_mode")]

\* The capability that guards the call of a getter ("" for none).
C8_GateOf(g) ==
  CASE g = "get_ambeo_mode" -> AMBEO_MODE
    [] g = "get_night_mode" -> NIGHT_MODE
    [] g = "get_sound_feedback" -> SOUND_FEEDBACK
    [] g = "get_bluetooth_pairing_state" -> BLUETOOTH_PAIRING
    [] g \in {"get_logo_brightness", "get_logo_state"} -> AMBEO_LOGO
    [] g = "get_led_bar_brightness" -> LED_BAR
    [] g \in {"get_subwoofer_status", "get_subwoofer_volume"} -> SUBWOOFER
    [] g = "get_voice_enhancement" -> VOICE_ENHANCEMENT_TOGGLE
    [] g = "get_voice_enhancement_level" -> VOICE_ENHANCEMENT_LEVEL
    [] g = "get_codec_led_brightness" -> CODEC_LED
    [] g = "get_display_brightness" -> MAX_DISPLAY
    [] g = "get_eco_mode" -> ECO_MODE
    [] OTHER -> ""

\* The getters awaited during the last refresh.
C8_Called == UNION {refresh.results[i].calls : i \in 1..Len(refresh.results)}

\* C8: when no fetch fails, _async_update_data returns a dict with exactly
\* the 16 keys, each holding the value of its own fetch; a key whose
\* capability is missing holds None and its getter is not called.
C8_DataOnSuccess ==
  (/\ refresh.pc = "done"
   /\ \A i \in 1..Len(refresh.results) : refresh.results[i].raised = "none")
    => /\ refresh.raised = "none"
       /\ Cardinality(DOMAIN refresh.data) = 16
       /\ refresh.data = C8_Expected(refresh.power)
       /\ \A g \in C8_Called :
            C8_GateOf(g) = "" \/ C8_GateOf(g) \in capabilities
       /\ (VOICE_ENHANCEMENT_TOGGLE \notin capabilities)
            => "get_voice_enhancement_level" \notin C8_Called

\* C8 witness: a refresh without failure of a device that has every polled
\* capability but the eco mode.
C8_Witness ==
  /\ refresh.pc = "done"
  /\ refresh.raised = "none"
  /\ \A i \in 1..Len(refresh.results) : refresh.results[i].raised = "none"
  /\ capabilities = PolledCapabilities \ {ECO_MODE}
  /\ refresh.data["eco_mode"] = [v |-> NoValue]
  /\ refresh.data["logo_state"] # [v |-> NoValue]
  /\ "get_eco_mode" \notin C8_Called

\* C9 as stated: a request() that keeps failing is attempted once and then
\* retried max_retries times when retry=True, and attempted exactly once
\* when retry=False.
C9_Original ==
  \A t \in Tasks :
    (task[t].pc = "done" /\ task[t].exhausted)
      => task[t].sent = IF task[t].retry THEN max_retries + 1 ELSE 1

\* C10: the delay slept after the k-th failed attempt is
\* retry_delay * 2^(k-1): the first is retry_delay and each one doubles
\* the one before; every sleep is followed by another attempt, so none is
\* slept after the final attempt or after a successful one.
C10_Backoff ==
  \A t \in Tasks :
    LET sl == task[t].sleeps IN
    /\ \A k \in 1..Len(sl) :
         sl[k] = IF k = 1 THEN retry_delay ELSE 2 * sl[k - 1]
    /\ task[t].pc = "backoff" => /\ Len(sl) = task[t].sent
                                 /\ task[t].wake - sl[Len(sl)] \in 0..now
    /\ task[t].pc \in {"http", "done"} /\ task[t].sent > 0
         => Len(sl) = task[t].sent - 1
    /\ task[t].sent = 0 => sl = <<>>

\* C10 witness: a request() that failed three times has slept retry_delay
\* and then twice retry_delay, and nothing after its last attempt.
C10_Witness ==
  \E t \in Tasks :
    /\ task[t].pc = "done" /\ task[t].exhausted
    /\ task[t].sent = 3
    /\ task[t].sleeps = <<retry_delay, 2 * retry_delay>>

\* A step of a config or options flow (the network is as it was).
FlowStep == answering' = answering

\* C11: the user step never creates a second entry for a configured
\* device: no two entries share a unique_id; when the device answering at
\* the submitted host has the unique_id of an existing entry the flow
\* aborts with already_configured and the entries stay as they are;
\* otherwise the entry created has unique_id = serial, title = device name
\* and data = the submitted host.
C11_UniqueEntries ==
  [][/\ \A i, j \in DOMAIN entries' :
          entries'[i].unique_id = entries'[j].unique_id => i = j
     /\ (/\ FlowStep
         /\ result'.step = "user"
         /\ result'.host \in Hosts
         /\ result'.info.raised = "none")
          => LET serial == answering[result'.host] IN
             IF \E i \in DOMAIN entries : entries[i].unique_id = serial
             THEN /\ result'.type = "abort"
                  /\ result'.detail = "already_configured"
                  /\ entries' = entries
             ELSE /\ result'.type = "create_entry"
                  /\ Len(entries') = Len(entries) + 1
                  /\ SubSeq(entries', 1, Len(entries)) = entries
                  /\ entries'[Len(entries')].unique_id = serial
                  /\ entries'[Len(entries')].title = get_name(serial)
                  /\ entries'[Len(entries')].data = result'.host]_vars

\* C11 witness: both devices have an entry and a user flow for the device
\* of the first entry, submitted with another host than that entry's, was
\* aborted.
C11_Witness ==
  /\ Len(entries) = 2
  /\ result.step = "user"
  /\ result.type = "abort"
  /\ result.detail = "already_configured"
  /\ result.info.serial = entries[1].unique_id
  /\ result.host # entries[1].data

\* C12 as stated: when validate_input raises, CannotConnect or the plain
\* Exception of the test, the user step shows the form again with errors
\* {base: cannot_connect}.
C12_Original ==
  (/\ result.step = "user"
   /\ result.info.raised \in {"CannotConnect", "Exception"})
    => (result.type = "form" /\ result.detail = "cannot_connect")

\* entry.options.get(CONFIG_HOST, entry.data.get(CONFIG_HOST)): the host
\* async_setup_entry connects to.
C18_HostOf(entry) ==
  IF entry.options # NoValue THEN entry.options ELSE entry.data

\* C18 as stated: no step of the reconfigure or options flow points an
\* entry at a host where a device with another serial than the entry's
\* unique_id answers.
C18_Original ==
  [][\A i \in DOMAIN entries :
       (/\ FlowStep
        /\ answering[C18_HostOf(entries'[i])] \in Serials
        /\ answering[C18_HostOf(entries'[i])] # entries[i].unique_id)
         => C18_HostOf(entries'[i]) = C18_HostOf(entries[i])]_vars

\* The entries whose setup stored a record and that were not unloaded since:
\* the loaded ones and those whose setup awaits the platforms.
C13_Held == {e \in EntryIds : entry_state[e] \in {"forwarding", "loaded"}}

\* C13: hass.data[DOMAIN] holds a record (api, device, coordinator) for
\* exactly the entries that are set up and not unloaded (once every setup
\* has returned: exactly the loaded entries), and the three domain services
\* are registered if and only if that set is not empty.
C13_Lifecycle ==
  /\ DOMAIN hass_data = C13_Held
  /\ \A e \in DOMAIN hass_data :
       /\ DOMAIN hass_data[e] = {"api", "device", "coordinator"}
       /\ hass_data[e].api = ApiOf(e)
       /\ hass_data[e].device = AmbeoDevice(e)
  /\ services = IF C13_Held # {} THEN DomainServices ELSE {}

\* One entry was unloaded while the other stays loaded: its record is kept
\* and the services stay registered.
C13_Witness ==
  /\ entry_state["entry_1"] = "loaded"
  /\ entry_state["entry_2"] = "not_loaded"
  /\ setup_result["entry_2"] = "unloaded"
  /\ DOMAIN hass_data = {"entry_1"}
  /\ services = DomainServices

\* The capability flag of a light: the flag's value is the class name.
C14_Supported(light) == light \in capabilities

\* The number of calls of `name` in a sequence of calls.
C14_Count(calls, name) == Cardinality({i \in DOMAIN calls : calls[i] = name})

\* C14: a turn_on service call on the light of a loaded entry whose device
\* supports it makes exactly one call of the light's brightness setter and
\* then one refresh request, the refresh being the last call; when the
\* setter raises, no refresh is requested.
C14_Original ==
  LET c == service_call
      setter == brightness_setter(c.light)
  IN  (c.entry # "none" /\ C14_Supported(c.light))
        => /\ c.raising = "none"
                => /\ C14_Count(c.calls, setter) = 1
                   /\ C14_Count(c.calls, "async_request_refresh") = 1
                   /\ c.calls[Len(c.calls)] = "async_request_refresh"
           /\ c.raising = setter
                => /\ C14_Count(c.calls, setter) = 1
                   /\ C14_Count(c.calls, "async_request_refresh") = 0

\* C15: once async_setup_entry returned True, the entry's runtime_data is
\* set and the stored coordinator has the config entry as its entry and
\* the created device API as its api.
C15_Original ==
  \A e \in EntryIds :
    (entry_state[e] = "loaded" /\ setup_result[e] = "True")
      => /\ runtime_data[e] # Unset
         /\ hass_data[e].coordinator.config_entry = e
         /\ hass_data[e].coordinator.api = ApiOf(e)

\* The controls named by a capability flag alone: entity and flag.
C17_Controls ==
  {<<"NightMode", NIGHT_MODE>>, <<"AmbeoMode", AMBEO_MODE>>,
   <<"SoundFeedback", SOUND_FEEDBACK>>, <<"LEDBar", LED_BAR>>,
   <<"eco_mode", ECO_MODE>>, <<"AmbeoLogo", AMBEO_LOGO>>,
   <<"CodecLED", CODEC_LED>>, <<"AmbeoMaxLogo", MAX_LOGO>>,
   <<"AmbeoMaxDisplay", MAX_DISPLAY>>,
   <<"VoiceEnhancementMode", VOICE_ENHANCEMENT_TOGGLE>>,
   <<"VoiceEnhancementLevel", VOICE_ENHANCEMENT_LEVEL>>,
   <<"AmbeoBluetoothPairing", BLUETOOTH_PAIRING>>,
   <<"CenterSpeakerLevel", CENTER_SPEAKER_LEVEL>>,
   <<"SideFiringLevel", SIDE_FIRING_LEVEL>>,
   <<"UpFiringLevel", UP_FIRING_LEVEL>>,
   <<"reset_expert_settings", RESET_EXPERT_SETTINGS>>}

\* C17: for a loaded entry, the entity of a control named by a capability
\* flag exists if and only if the device supports that flag.
C17_Original ==
  \A e \in EntryIds :
    (entry_state[e] = "loaded" /\ setup_result[e] = "True")
      => \A c \in C17_Controls : (c[1] \in entities[e]) <=> (c[2] \in capabilities)

\* C16: every sleep between two attempts is at most max_delay, the wrapped
\* function is called at most max_retries + 1 times, and when every attempt
\* failed the last exception is the one raised.
C16_Original ==
  /\ \A i \in DOMAIN wrapper.sleeps : wrapper.sleeps[i] <= wrapper.max_delay
  /\ wrapper.calls <= wrapper.max_retries + 1
  /\ (wrapper.pc = "done" /\ wrapper.calls = wrapper.max_retries + 1
        /\ wrapper.last_exception # NoValue /\ wrapper.outcome # "returned"
        /\ wrapper.outcome # "uncaught")
       => wrapper.outcome = wrapper.last_exception

\* The typed error of an HTTP status class.
C19_TypedError(resp) ==
  CASE resp = "401" -> "AmbeoAuthError"
    [] resp = "404" -> "AmbeoNotFoundError"
    [] resp = "429" -> "AmbeoRateLimitError"
    [] resp = "5xx" -> "AmbeoServerError"
    [] resp = "4xx" -> "AmbeoValidationError"
    [] OTHER -> "ok"

\* The HTTP error statuses.
C19_Statuses == {"401", "404", "429", "4xx", "5xx"}

\* C19: a request that ended on an HTTP status reports the typed error of
\* the status class to its caller, and success for a status below 400.
C19_Original ==
  \A t \in Tasks :
    (task[t].pc = "done" /\ task[t].response \in C19_Statuses \cup HttpOk)
      => task[t].outcome = C19_TypedError(task[t].response)

\* C20: an attempt that received an HTTP error status is followed by no
\* backoff sleep and no further attempt: the request has ended.
C20_Original ==
  \A t \in Tasks :
    task[t].response \in C19_Statuses => task[t].pc = "done"

\* The circuit breaker is open: its state is ERROR and fewer than
\* timeout_seconds have passed since the last recorded failure.
C21_Open ==
  /\ circuit_breaker.state = ERROR
  /\ now - circuit_breaker.last_failure_time < timeout_seconds

\* The step in which task t sends an HTTP attempt to the device.
C21_Sends(t) == task'[t].sent > task[t].sent

\* C21 as stated: no HTTP attempt is sent while the circuit breaker is
\* open, by any request.
C21_Original == [][\A t \in Tasks : C21_Sends(t) => ~C21_Open]_vars

\* C21 amended: the circuit breaker is a gate at the entry of request().
\* While it is open a request() call sends no HTTP attempt; an attempt sent
\* while it is open comes from a request that had passed the gate before:
\* one resuming from its backoff sleep or from the rate limiter's sleep.
C21_GateAtEntry ==
  [][\A t \in Tasks :
       /\ (Calls(t) /\ C21_Open)
            => /\ ~C21_Sends(t)
               /\ task'[t].pc = "done"
       /\ (C21_Sends(t) /\ C21_Open)
            => task[t].pc \in {"backoff", "limiter_sleep"}]_vars

\* C21 witness: a retry attempt is in flight that was sent after the
\* failure that left the circuit open, within the cool-down.
C21_Witness ==
  /\ C21_Open
  /\ \E t \in Tasks :
       /\ task[t].pc = "http"
       /\ task[t].attempt >= 1
       /\ task[t].wake > circuit_breaker.last_failure_time

\* C22 as stated: the HTTP attempts sent within the period that ends now,
\* retry attempts included, are at most max_calls.
C22_Original ==
  Len(within_period(attempt_log, now, period_seconds)) <= max_calls

\* The statuses for which _handle_response raises an AmbeoError.
C23_Statuses == {"401", "404", "429", "5xx"}

\* The breaker and failures_total are left as they are by the step.
C23_Same ==
  /\ circuit_breaker' = circuit_breaker
  /\ failure_count' = failure_count

\* C23 as stated: after a request of the sequential caller that ended with
\* an AmbeoError of response handling, the breaker is as it was when
\* request() was called: its state is ERROR exactly if it was ERROR then.
C23_Original ==
  (task[Caller].pc = "done" /\ task[Caller].response \in C23_Statuses)
    => ((circuit_breaker.state = ERROR) <=> task[Caller].trial)

\* C23 amended: a request that ends with an AmbeoError of response handling
\* calls neither record_failure nor record_success: the step that ends it,
\* and every step of it after its entry, leave the breaker and
\* failures_total as they are.  The breaker is changed by such a request
\* only at its entry, where is_open closes it completely when it was in
\* ERROR and timeout_seconds had elapsed.
C23_OnlyAtEntry ==
  [][/\ (Finishes(Caller) /\ task'[Caller].response \in C23_Statuses)
          => C23_Same
     /\ (task[Caller].pc \in {"limiter_sleep", "http", "backoff"}
           /\ ~Finishes(Caller))
          => C23_Same
     /\ (Calls(Caller) /\ task'[Caller].pc # "done")
          => /\ failure_count' = failure_count
             /\ circuit_breaker' = IF task'[Caller].trial
                                     THEN CircuitBreakerInit
                                     ELSE circuit_breaker]_vars

\* C23 witness: after one recorded failure a request retried once and then
\* ended on a server error; the one failure is still what is recorded.
C23_Witness ==
  /\ task[Caller].pc = "done"
  /\ task[Caller].response = "5xx"
  /\ task[Caller].sleeps # <<>>
  /\ circuit_breaker.failure_count = 1
  /\ circuit_breaker.state = CONNECTED
  /\ failure_count = 1

\* timeout_seconds have elapsed since the last recorded failure.
C24_Elapsed == now - circuit_breaker.last_failure_time >= timeout_seconds

\* The step in which a failure is recorded.
C24_Records == failure_count' = failure_count + 1

\* The step closes the circuit.
C24_Closes == circuit_breaker.state = ERROR /\ circuit_breaker'.state # ERROR

\* A failure recorded while the circuit is open restarts the cool-down: the
\* circuit stays open and the last-failure time is the time of that
\* failure.
C24_Restarts ==
  (circuit_breaker.state = ERROR /\ ~C24_Elapsed /\ C24_Records)
    => /\ circuit_breaker'.state = ERROR
       /\ circuit_breaker'.last_failure_time = now
       /\ circuit_breaker'.failure_count = circuit_breaker.failure_count + 1

\* C24 as stated: a failure recorded while the circuit is open restarts the
\* cool-down, and the circuit closes only when timeout_seconds have
\* elapsed since the last recorded failure, with failure count 0.
C24_Original ==
  [][/\ C24_Restarts
     /\ C24_Closes
          => (C24_Elapsed /\ circuit_breaker' = CircuitBreakerInit)]_vars

\* C24 amended: a failure recorded while the circuit is open restarts the
\* cool-down.  The circuit closes, always completely, in two ways: at an
\* is_open evaluation made at least timeout_seconds after the last
\* recorded failure, or, earlier, when a request admitted before the
\* circuit opened succeeds (record_success).  A request() called before
\* timeout_seconds have elapsed since the last failure is refused and
\* leaves the breaker as it is.
C24_CoolDown ==
  [][/\ C24_Restarts
     /\ C24_Closes
          => /\ circuit_breaker' = CircuitBreakerInit
             /\ \/ C24_Elapsed
                \/ \E t \in Tasks : Finishes(t) /\ task'[t].outcome = "ok"
     /\ \A t \in Tasks :
          (Calls(t) /\ circuit_breaker.state = ERROR)
            => IF C24_Elapsed
               THEN /\ task'[t].outcome # "AmbeoCircuitBreakerError"
                    /\ circuit_breaker'.failure_count =
                         IF task'[t].exhausted THEN 1 ELSE 0
               ELSE /\ task'[t].outcome = "AmbeoCircuitBreakerError"
                    /\ circuit_breaker' = circuit_breaker]_vars

\* C24 witness: a failure was recorded after the one that opened the
\* circuit, and a request() called less than timeout_seconds after it has
\* been refused.
C24_Witness ==
  /\ circuit_breaker.state = ERROR
  /\ circuit_breaker.failure_count > failure_threshold
  /\ circuit_breaker.last_failure_time > 0
  /\ ~C24_Elapsed
  /\ \E t \in Tasks : /\ task[t].pc = "done"
                      /\ task[t].outcome = "AmbeoCircuitBreakerError"

\* C25: the stored state of the circuit breaker is CONNECTED or ERROR; it
\* is ERROR exactly when the failure count is at least failure_threshold;
\* and the last-failure time is unset exactly when the failure count is 0.
C25_BreakerInvariants ==
  /\ failure_threshold >= 1
  /\ circuit_breaker.state \in {CONNECTED, ERROR}
  /\ (circuit_breaker.state = ERROR)
       <=> (circuit_breaker.failure_count >= failure_threshold)
  /\ (circuit_breaker.last_failure_time = None)
       <=> (circuit_breaker.failure_count = 0)

\* C25 witness: a failure was recorded while the circuit was open, after
\* time has passed: the count is above the threshold and the state ERROR.
C25_Witness ==
  /\ failure_threshold = 2
  /\ circuit_breaker.failure_count = 3
  /\ circuit_breaker.state = ERROR
  /\ circuit_breaker.last_failure_time >= 1

====
